---- MODULE Spec2Model ----
(***************************************************************************)
(* Model of the LogView session logger (app/static/js/view/LogView.js).    *)
(*                                                                         *)
(* A JSON mapping (objs, grippers, config) is a set of <<key, value>>      *)
(* pairs, so Object.keys(m).length is Cardinality(m).  A JavaScript object *)
(* with known string keys (this.data, a snapshot payload) is a TLA+        *)
(* record/function over its own keys.  this.startTime is << >> while it is *)
(* undefined and <<t>> once a number t has been assigned.                  *)
(***************************************************************************)
EXTENDS Integers, Sequences, FiniteSets, TLC

\* ---- bounds of the model ------------------------------------------------
\* number of operations (events, calls, callbacks, clock ticks) in a run
MaxSteps == 5

\* ---- input domains ------------------------------------------------------
\* Date.now() of the first instant of the model (milliseconds, positive)
T0 == 1

EmptyMap == {}

\* the JSON mappings a payload may carry: {} and a non-empty one
Mappings == {EmptyMap, {<<"a", 1>>}}

\* payloads of the update_state event
StatePayloads == [objs : Mappings, grippers : Mappings]

\* keys and values the caller passes to addData
DataKeys == {"log", "user"}

DataValues == {"v1", "v2"}

Endpoints == {"/save_log"}

VARIABLES
    logFullState,    \* this.logFullState
    data,            \* this.data
    startTime,       \* this.startTime
    currentObjs,     \* this.currentObjs
    currentGrippers, \* this.currentGrippers
    currentConfig,   \* this.currentConfig
    now,             \* the wall clock read by Date.now()
    fetches,         \* requests started by fetch() and not yet settled
    console,         \* lines written by console.log during the last step
    ret,             \* value returned by the last call or callback
    ev,              \* the event or call processed by the last step
    wasUnset,        \* whether !this.startTime held when that step began
    qualified,       \* events since construction/clear that qualify for recording
    preConfig,       \* payload of the latest config event of the current pre-start phase, if any
    added,           \* key -> value last passed to addData since construction/clear
    steps            \* operations processed so far

logger == <<data, startTime, currentObjs, currentGrippers, currentConfig>>

observer == <<ev, wasUnset, qualified, preConfig, added, steps>>

vars == <<logFullState, data, startTime, currentObjs, currentGrippers,
          currentConfig, now, fetches, console, ret, ev, wasUnset,
          qualified, preConfig, added, steps>>

\* ---- helpers ------------------------------------------------------------
Last(s) == s[Len(s)]

\* obj[key] = value on a JavaScript object
Put(obj, key, value) ==
    [k \in (DOMAIN obj) \cup {key} |-> IF k = key THEN value ELSE obj[k]]

\* !this.startTime : undefined and 0 are both falsy
Falsy(st) == Len(st) = 0 \/ st[1] = 0

\* variant: the empty-state check of update_state is missing
EmptyState_never(state) == FALSE

\* Object.keys(state["objs"]).length == 0 && Object.keys(state["grippers"]).length == 0
EmptyState(state) ==
    Cardinality(state["objs"]) = 0 /\ Cardinality(state["grippers"]) = 0

\* Date.now()
DateNow == now

\* the object literal {"log": new Array()}
FreshData == [log |-> << >>]

\* ---- helper functions of the class ---------------------------------------
_getFullState ==
    [objs |-> currentObjs, grippers |-> currentGrippers, config |-> currentConfig]

\* variant: the snapshot is put at the front of the log
_addSnapshot_front(timestamp, snap) ==
    data' = Put(data, "log", <<<<timestamp, snap>>>> \o data["log"])

_addSnapshot(timestamp, snap) ==
    data' = Put(data, "log", Append(data["log"], <<timestamp, snap>>))

\* ---- socket event handlers ------------------------------------------------
\* variant: update_state takes a new start time on every event
on_update_state_restart(state) ==
    IF Falsy(startTime) /\ EmptyState(state)
    THEN UNCHANGED logger
    ELSE /\ startTime' = <<DateNow>>
         /\ LET timeOffset == 0
            IN  IF logFullState
                THEN /\ currentObjs' = state["objs"]
                     /\ currentGrippers' = state["grippers"]
                     /\ UNCHANGED currentConfig
                     /\ _addSnapshot(timeOffset, _getFullState')
                ELSE /\ _addSnapshot(timeOffset, state)
                     /\ UNCHANGED <<currentObjs, currentGrippers, currentConfig>>

\* variant: the first update_state is stamped with Date.now() instead of 0
on_update_state_abs(state) ==
    IF Falsy(startTime) /\ EmptyState(state)
    THEN UNCHANGED logger
    ELSE /\ startTime' = IF Falsy(startTime) THEN <<DateNow>> ELSE startTime
         /\ LET timeOffset == IF Falsy(startTime) THEN DateNow
                              ELSE DateNow - startTime[1]
            IN  IF logFullState
                THEN /\ currentObjs' = state["objs"]
                     /\ currentGrippers' = state["grippers"]
                     /\ UNCHANGED currentConfig
                     /\ _addSnapshot(timeOffset, _getFullState')
                ELSE /\ _addSnapshot(timeOffset, state)
                     /\ UNCHANGED <<currentObjs, currentGrippers, currentConfig>>

on_update_state(state) ==
    IF Falsy(startTime) /\ EmptyState(state)
    THEN UNCHANGED logger
    ELSE /\ startTime' = IF Falsy(startTime) THEN <<DateNow>> ELSE startTime
         /\ LET timeOffset == IF Falsy(startTime) THEN 0
                              ELSE DateNow - startTime[1]
            IN  IF logFullState
                THEN /\ currentObjs' = state["objs"]
                     /\ currentGrippers' = state["grippers"]
                     /\ UNCHANGED currentConfig
                     /\ _addSnapshot(timeOffset, _getFullState')
                ELSE /\ _addSnapshot(timeOffset, state)
                     /\ UNCHANGED <<currentObjs, currentGrippers, currentConfig>>

\* variant: update_grippers measures the offset from the event back to the start
on_update_grippers_neg(grippers) ==
    IF ~Falsy(startTime)
    THEN LET timeOffset == startTime[1] - DateNow
         IN  IF logFullState
             THEN /\ currentGrippers' = grippers
                  /\ UNCHANGED <<startTime, currentObjs, currentConfig>>
                  /\ _addSnapshot(timeOffset, _getFullState')
             ELSE /\ _addSnapshot(timeOffset, [gripper |-> grippers])
                  /\ UNCHANGED <<startTime, currentObjs, currentGrippers, currentConfig>>
    ELSE UNCHANGED logger

\* variant: delta mode wraps the grippers under the plural key
on_update_grippers_plural(grippers) ==
    IF ~Falsy(startTime)
    THEN LET timeOffset == DateNow - startTime[1]
         IN  IF logFullState
             THEN /\ currentGrippers' = grippers
                  /\ UNCHANGED <<startTime, currentObjs, currentConfig>>
                  /\ _addSnapshot(timeOffset, _getFullState')
             ELSE /\ _addSnapshot(timeOffset, [grippers |-> grippers])
                  /\ UNCHANGED <<startTime, currentObjs, currentGrippers, currentConfig>>
    ELSE UNCHANGED logger

\* variant: full-state mode stores the grippers payload as the objects too
on_update_grippers_both(grippers) ==
    IF ~Falsy(startTime)
    THEN LET timeOffset == DateNow - startTime[1]
         IN  IF logFullState
             THEN /\ currentGrippers' = grippers
                  /\ currentObjs' = grippers
                  /\ UNCHANGED <<startTime, currentConfig>>
                  /\ _addSnapshot(timeOffset, _getFullState')
             ELSE /\ _addSnapshot(timeOffset, [gripper |-> grippers])
                  /\ UNCHANGED <<startTime, currentObjs, currentGrippers, currentConfig>>
    ELSE UNCHANGED logger

on_update_grippers(grippers) ==
    IF ~Falsy(startTime)
    THEN LET timeOffset == DateNow - startTime[1]
         IN  IF logFullState
             THEN /\ currentGrippers' = grippers
                  /\ UNCHANGED <<startTime, currentObjs, currentConfig>>
                  /\ _addSnapshot(timeOffset, _getFullState')
             ELSE /\ _addSnapshot(timeOffset, [gripper |-> grippers])
                  /\ UNCHANGED <<startTime, currentObjs, currentGrippers, currentConfig>>
    ELSE UNCHANGED logger

\* variant: update_objs caches the objects before the session has started
on_update_objs_cache(objs) ==
    IF ~Falsy(startTime)
    THEN LET timeOffset == DateNow - startTime[1]
         IN  IF logFullState
             THEN /\ currentObjs' = objs
                  /\ UNCHANGED <<startTime, currentGrippers, currentConfig>>
                  /\ _addSnapshot(timeOffset, _getFullState')
             ELSE /\ _addSnapshot(timeOffset, [objs |-> objs])
                  /\ UNCHANGED <<startTime, currentObjs, currentGrippers, currentConfig>>
    ELSE /\ currentObjs' = objs
         /\ UNCHANGED <<data, startTime, currentGrippers, currentConfig>>

on_update_objs(objs) ==
    IF ~Falsy(startTime)
    THEN LET timeOffset == DateNow - startTime[1]
         IN  IF logFullState
             THEN /\ currentObjs' = objs
                  /\ UNCHANGED <<startTime, currentGrippers, currentConfig>>
                  /\ _addSnapshot(timeOffset, _getFullState')
             ELSE /\ _addSnapshot(timeOffset, [objs |-> objs])
                  /\ UNCHANGED <<startTime, currentObjs, currentGrippers, currentConfig>>
    ELSE UNCHANGED logger

\* variant: full-state mode takes the snapshot before it stores the new config
on_update_config_stale(config) ==
    IF ~Falsy(startTime)
    THEN LET timeOffset == DateNow - startTime[1]
         IN  IF logFullState
             THEN /\ currentConfig' = config
                  /\ UNCHANGED <<startTime, currentObjs, currentGrippers>>
                  /\ _addSnapshot(timeOffset, _getFullState)
             ELSE /\ _addSnapshot(timeOffset, [config |-> config])
                  /\ UNCHANGED <<startTime, currentObjs, currentGrippers, currentConfig>>
    ELSE IF logFullState
         THEN /\ currentConfig' = config
              /\ UNCHANGED <<data, startTime, currentObjs, currentGrippers>>
         ELSE /\ _addSnapshot(-1, [config |-> config])
              /\ UNCHANGED <<startTime, currentObjs, currentGrippers, currentConfig>>

\* variant: full-state mode keeps the first pre-start config instead of the latest
on_update_config_first(config) ==
    IF ~Falsy(startTime)
    THEN LET timeOffset == DateNow - startTime[1]
         IN  IF logFullState
             THEN /\ currentConfig' = config
                  /\ UNCHANGED <<startTime, currentObjs, currentGrippers>>
                  /\ _addSnapshot(timeOffset, _getFullState')
             ELSE /\ _addSnapshot(timeOffset, [config |-> config])
                  /\ UNCHANGED <<startTime, currentObjs, currentGrippers, currentConfig>>
    ELSE IF logFullState
         THEN /\ currentConfig' = IF currentConfig = EmptyMap THEN config
                                                              ELSE currentConfig
              /\ UNCHANGED <<data, startTime, currentObjs, currentGrippers>>
         ELSE /\ _addSnapshot(-1, [config |-> config])
              /\ UNCHANGED <<startTime, currentObjs, currentGrippers, currentConfig>>

\* variant: the pre-start config of delta mode is stamped 0 instead of -1
on_update_config_zero(config) ==
    IF ~Falsy(startTime)
    THEN LET timeOffset == DateNow - startTime[1]
         IN  IF logFullState
             THEN /\ currentConfig' = config
                  /\ UNCHANGED <<startTime, currentObjs, currentGrippers>>
                  /\ _addSnapshot(timeOffset, _getFullState')
             ELSE /\ _addSnapshot(timeOffset, [config |-> config])
                  /\ UNCHANGED <<startTime, currentObjs, currentGrippers, currentConfig>>
    ELSE IF logFullState
         THEN /\ currentConfig' = config
              /\ UNCHANGED <<data, startTime, currentObjs, currentGrippers>>
         ELSE /\ _addSnapshot(0, [config |-> config])
              /\ UNCHANGED <<startTime, currentObjs, currentGrippers, currentConfig>>

on_update_config(config) ==
    IF ~Falsy(startTime)
    THEN LET timeOffset == DateNow - startTime[1]
         IN  IF logFullState
             THEN /\ currentConfig' = config
                  /\ UNCHANGED <<startTime, currentObjs, currentGrippers>>
                  /\ _addSnapshot(timeOffset, _getFullState')
             ELSE /\ _addSnapshot(timeOffset, [config |-> config])
                  /\ UNCHANGED <<startTime, currentObjs, currentGrippers, currentConfig>>
    ELSE IF logFullState
         THEN /\ currentConfig' = config
              /\ UNCHANGED <<data, startTime, currentObjs, currentGrippers>>
         ELSE /\ _addSnapshot(-1, [config |-> config])
              /\ UNCHANGED <<startTime, currentObjs, currentGrippers, currentConfig>>

\* ---- public methods -------------------------------------------------------
\* variant: the reserved key is reported and the auxiliary data is dropped
addData_drop(key, value) ==
    /\ IF key = "log"
       THEN /\ console' = <<"Error at LogView: Cannot manually add data with reserved key 'log'.">>
            /\ data' = [log |-> data["log"]]
       ELSE /\ data' = Put(data, key, value)
            /\ console' = << >>
    /\ ret' = "undefined"
    /\ UNCHANGED <<startTime, currentObjs, currentGrippers, currentConfig>>

addData(key, value) ==
    /\ IF key = "log"
       THEN /\ console' = <<"Error at LogView: Cannot manually add data with reserved key 'log'.">>
            /\ UNCHANGED data
       ELSE /\ data' = Put(data, key, value)
            /\ console' = << >>
    /\ ret' = "undefined"
    /\ UNCHANGED <<startTime, currentObjs, currentGrippers, currentConfig>>

\* variant: only the log is serialised
JSONstringify_logonly(obj) == [json |-> [log |-> obj["log"]]]

\* JSON.stringify(this.data): the text is fixed when sendData runs
JSONstringify(obj) == [json |-> obj]

sendData(endpoint) ==
    /\ fetches' = Append(fetches, [endpoint |-> endpoint, method |-> "POST",
                                   body |-> JSONstringify(data)])
    /\ ret' = "undefined"
    /\ console' = << >>
    /\ UNCHANGED logger

\* variant: the collected data is dropped once the server has saved it
sendData_then_flush(ok) ==
    /\ IF ~ok
       THEN /\ console' = <<"Error saving log data!">>
            /\ ret' = "true"
            /\ UNCHANGED logger
       ELSE /\ console' = <<"Saved log data to the server.">>
            /\ ret' = "false"
            /\ data' = FreshData
            /\ UNCHANGED <<startTime, currentObjs, currentGrippers, currentConfig>>

\* the .then callback of sendData, run with the server's response
sendData_then(ok) ==
    /\ IF ~ok
       THEN /\ console' = <<"Error saving log data!">>
            /\ ret' = "true"
       ELSE /\ console' = <<"Saved log data to the server.">>
            /\ ret' = "false"
    /\ UNCHANGED logger

\* variant: clear leaves the start time in place
clear_keep_clock ==
    /\ data' = FreshData
    /\ UNCHANGED startTime
    /\ currentObjs' = EmptyMap
    /\ currentGrippers' = EmptyMap
    /\ currentConfig' = EmptyMap

\* variant: clear keeps the cached config
clear_keep_config ==
    /\ data' = FreshData
    /\ startTime' = << >>
    /\ currentObjs' = EmptyMap
    /\ currentGrippers' = EmptyMap
    /\ UNCHANGED currentConfig

\* variant: clear empties the log and keeps the auxiliary data
clear_keep_aux ==
    /\ data' = Put(data, "log", << >>)
    /\ startTime' = << >>
    /\ currentObjs' = EmptyMap
    /\ currentGrippers' = EmptyMap
    /\ currentConfig' = EmptyMap

clear ==
    /\ data' = FreshData
    /\ startTime' = << >>
    /\ currentObjs' = EmptyMap
    /\ currentGrippers' = EmptyMap
    /\ currentConfig' = EmptyMap

\* ---- what an observer of the logger records about each step -----------------
\* the events the recording rules exclude
Excluded(kind, payload, unset, full) ==
    \/ kind = "update_state" /\ unset
         /\ payload["objs"] = EmptyMap /\ payload["grippers"] = EmptyMap
    \/ kind \in {"update_grippers", "update_objs"} /\ unset
    \/ kind = "update_config" /\ unset /\ full

Observe(kind, payload) ==
    /\ steps < MaxSteps
    /\ steps' = steps + 1
    /\ ev' = [kind |-> kind, payload |-> payload]
    /\ wasUnset' = Falsy(startTime)
    /\ qualified' = IF kind = "clear" THEN 0
                    ELSE IF kind \in {"update_state", "update_grippers",
                                      "update_objs", "update_config"}
                            /\ ~Excluded(kind, payload, Falsy(startTime), logFullState)
                         THEN qualified + 1
                         ELSE qualified
    /\ preConfig' = IF kind = "clear" THEN << >>
                    ELSE IF kind = "update_config" /\ Falsy(startTime)
                         THEN <<payload>>
                         ELSE IF kind = "update_state" /\ Falsy(startTime)
                                 /\ ~Excluded(kind, payload, TRUE, logFullState)
                              THEN << >>
                              ELSE preConfig
    /\ added' = IF kind = "clear" THEN << >>
                ELSE IF kind = "addData" /\ payload[1] # "log"
                     THEN Put(added, payload[1], payload[2])
                     ELSE added

\* ---- the state machine ------------------------------------------------------
Init ==
    /\ logFullState \in BOOLEAN
    /\ data = FreshData
    /\ startTime = << >>
    /\ currentObjs = EmptyMap
    /\ currentGrippers = EmptyMap
    /\ currentConfig = EmptyMap
    /\ now = T0
    /\ fetches = << >>
    /\ console = << >>
    /\ ret = "undefined"
    /\ ev = [kind |-> "constructor", payload |-> logFullState]
    /\ wasUnset = TRUE
    /\ qualified = 0
    /\ preConfig = << >>
    /\ added = << >>
    /\ steps = 0

EvUpdateState ==
    \E state \in StatePayloads :
        /\ on_update_state(state)
        /\ Observe("update_state", state)
        /\ console' = << >> /\ ret' = "undefined"
        /\ UNCHANGED <<logFullState, now, fetches>>

EvUpdateGrippers ==
    \E grippers \in Mappings :
        /\ on_update_grippers(grippers)
        /\ Observe("update_grippers", grippers)
        /\ console' = << >> /\ ret' = "undefined"
        /\ UNCHANGED <<logFullState, now, fetches>>

EvUpdateObjs ==
    \E objs \in Mappings :
        /\ on_update_objs(objs)
        /\ Observe("update_objs", objs)
        /\ console' = << >> /\ ret' = "undefined"
        /\ UNCHANGED <<logFullState, now, fetches>>

EvUpdateConfig ==
    \E config \in Mappings :
        /\ on_update_config(config)
        /\ Observe("update_config", config)
        /\ console' = << >> /\ ret' = "undefined"
        /\ UNCHANGED <<logFullState, now, fetches>>

CallAddData ==
    \E key \in DataKeys, value \in DataValues :
        /\ addData(key, value)
        /\ Observe("addData", <<key, value>>)
        /\ UNCHANGED <<logFullState, now, fetches>>

CallSendData ==
    \E endpoint \in Endpoints :
        /\ sendData(endpoint)
        /\ Observe("sendData", endpoint)
        /\ UNCHANGED <<logFullState, now>>

\* the server answers the oldest request; the .then callback runs
FetchResponse ==
    \E ok \in BOOLEAN :
        /\ Len(fetches) > 0
        /\ sendData_then(ok)
        /\ fetches' = Tail(fetches)
        /\ Observe("response", [ok |-> ok, request |-> Head(fetches)])
        /\ UNCHANGED <<logFullState, now>>

\* the transport fails: fetch() rejects and sendData attached no handler for it
FetchReject ==
    /\ Len(fetches) > 0
    /\ fetches' = Tail(fetches)
    /\ console' = << >>
    /\ ret' = "undefined"
    /\ Observe("reject", [error |-> "TypeError", request |-> Head(fetches)])
    /\ UNCHANGED <<logFullState, now>>
    /\ UNCHANGED logger

CallClear ==
    /\ clear
    /\ Observe("clear", "")
    /\ console' = << >> /\ ret' = "undefined"
    /\ UNCHANGED <<logFullState, now, fetches>>

\* wall-clock time passes
Tick ==
    /\ now' = now + 1
    /\ Observe("tick", now + 1)
    /\ console' = << >> /\ ret' = "undefined"
    /\ UNCHANGED <<logFullState, fetches>>
    /\ UNCHANGED logger

Next ==
    \/ EvUpdateState
    \/ EvUpdateGrippers
    \/ EvUpdateObjs
    \/ EvUpdateConfig
    \/ CallAddData
    \/ CallSendData
    \/ FetchResponse
    \/ FetchReject
    \/ CallClear
    \/ Tick

Spec == Init /\ [][Next]_vars

\* ---- shorthands for the properties ---------------------------------------
Log == data["log"]

EventKinds == {"update_state", "update_grippers", "update_objs", "update_config"}

\* the last step processed an update_state event that carried objects or grippers
NonEmptyStateEvent(e) ==
    /\ e["kind"] = "update_state"
    /\ ~(e["payload"]["objs"] = EmptyMap /\ e["payload"]["grippers"] = EmptyMap)

EmptyStateEvent(e) ==
    /\ e["kind"] = "update_state"
    /\ e["payload"]["objs"] = EmptyMap /\ e["payload"]["grippers"] = EmptyMap

\* the step appended exactly one snapshot to the log and kept the rest of data
AppendedOne ==
    /\ DOMAIN data' = DOMAIN data
    /\ \A k \in DOMAIN data \ {"log"} : data'[k] = data[k]
    /\ Len(data'["log"]) = Len(data["log"]) + 1
    /\ SubSeq(data'["log"], 1, Len(data["log"])) = data["log"]

\* C1: the log length equals the number of events, since construction or the
\* last clear, that are not excluded by the recording rules (empty full-state
\* event, gripper or object event, full-state-mode config event, each while
\* the session clock is unset).
C1_LogLengthCountsQualifying == Len(Log) = qualified

C1_Witness ==
    /\ ev["kind"] = "update_grippers" /\ ~wasUnset
    /\ qualified = 2 /\ Len(Log) = 2

\* C2: a full-state event with objects or grippers, processed while the clock
\* is unset, sets the clock to the current time and appends exactly one
\* snapshot with offset 0; in full-state mode its payload is the event's objs
\* and grippers together with the config held before the event.
C2_FirstStateStartsClock ==
    [][(NonEmptyStateEvent(ev') /\ wasUnset') =>
          /\ startTime' = <<now>>
          /\ ~Falsy(startTime')
          /\ AppendedOne
          /\ Last(data'["log"])[1] = 0
          /\ logFullState =>
                Last(data'["log"])[2] = [objs |-> ev'["payload"]["objs"],
                                         grippers |-> ev'["payload"]["grippers"],
                                         config |-> currentConfig]]_vars

C2_Witness ==
    /\ NonEmptyStateEvent(ev) /\ wasUnset
    /\ logFullState
    /\ now > T0
    /\ startTime = <<now>>
    /\ Len(Log) = 1
    /\ Last(Log)[1] = 0
    /\ Last(Log)[2]["config"] # EmptyMap

\* C3: while the clock is unset, an empty full-state event, a gripper event and
\* an object event leave log, auxiliary data, clock and accumulated substate
\* unchanged, in both modes.
C3_PreStartNoOp ==
    [][(wasUnset' /\ (EmptyStateEvent(ev')
                        \/ ev'["kind"] \in {"update_grippers", "update_objs"})) =>
          /\ data' = data
          /\ startTime' = startTime
          /\ Falsy(startTime')
          /\ currentObjs' = currentObjs
          /\ currentGrippers' = currentGrippers
          /\ currentConfig' = currentConfig]_vars

C3_Witness ==
    /\ ev["kind"] = "update_objs" /\ ev["payload"] # EmptyMap
    /\ wasUnset /\ Falsy(startTime)
    /\ "user" \in DOMAIN data
    /\ Len(Log) > 0
    /\ currentObjs = EmptyMap

\* C4: once set, the clock keeps its value under every event, addData call and
\* upload step; only clear unsets it; every snapshot appended while the clock
\* is set carries the offset (current time - clock).
C4_ClockImmutable ==
    [][/\ ~Falsy(startTime) =>
            IF ev'["kind"] = "clear" THEN startTime' = << >>
                                     ELSE startTime' = startTime
       /\ (~Falsy(startTime') /\ Len(data'["log"]) > Len(data["log"])) =>
            Last(data'["log"])[1] = now' - startTime'[1]]_vars

C4_Witness ==
    /\ ev["kind"] = "update_state" /\ ~wasUnset
    /\ ~Falsy(startTime)
    /\ now > startTime[1]
    /\ Last(Log)[1] = now - startTime[1]

\* C5: in full-state mode a config event processed while the clock is unset
\* records nothing and leaves the clock unset, and the snapshot of the next
\* qualifying full-state event carries the payload of the latest such config
\* event (of the current pre-start phase) as its config.
C5_PreStartConfigCached ==
    [][/\ (logFullState /\ ev'["kind"] = "update_config" /\ wasUnset') =>
            /\ data' = data
            /\ startTime' = startTime
            /\ Falsy(startTime')
       /\ (logFullState /\ NonEmptyStateEvent(ev') /\ wasUnset'
             /\ preConfig # << >>) =>
            /\ Len(data'["log"]) = Len(data["log"]) + 1
            /\ Last(data'["log"])[2]["config"] = preConfig[1]]_vars

C5_Witness ==
    /\ logFullState
    /\ NonEmptyStateEvent(ev) /\ wasUnset
    /\ Len(Log) = 1
    /\ Last(Log)[2]["config"] = {<<"a", 1>>}
    /\ Last(Log)[2]["config"] = currentConfig

\* C6: in delta mode a config event processed while the clock is unset appends
\* the snapshot [-1, {config: payload}] and leaves the clock unset.
C6_DeltaPreStartConfig ==
    [][(~logFullState /\ ev'["kind"] = "update_config" /\ wasUnset') =>
          /\ AppendedOne
          /\ Last(data'["log"]) = <<-1, [config |-> ev'["payload"]]>>
          /\ startTime' = startTime
          /\ Falsy(startTime')]_vars

C6_Witness ==
    /\ ~logFullState
    /\ ev["kind"] = "update_config" /\ wasUnset
    /\ Falsy(startTime)
    /\ Len(Log) = 2
    /\ Last(Log) = <<-1, [config |-> ev["payload"]]>>

\* the payload delta mode records for an event, from the event alone
DeltaPayload(e) ==
    CASE e["kind"] = "update_state"    -> e["payload"]
      [] e["kind"] = "update_grippers" -> [gripper |-> e["payload"]]
      [] e["kind"] = "update_objs"     -> [objs |-> e["payload"]]
      [] e["kind"] = "update_config"   -> [config |-> e["payload"]]

\* C7: in delta mode every appended snapshot carries a payload fixed by the
\* triggering event alone: the full-state payload as received, {gripper: p},
\* {objs: p} or {config: p}.
C7_DeltaPayloads ==
    [][(~logFullState /\ Len(data'["log"]) > Len(data["log"])) =>
          /\ ev'["kind"] \in EventKinds
          /\ AppendedOne
          /\ Last(data'["log"])[2] = DeltaPayload(ev')]_vars

C7_Witness ==
    /\ ~logFullState
    /\ ev["kind"] = "update_grippers"
    /\ Len(Log) = 3
    /\ Log[1][2] = [config |-> {<<"a", 1>>}]
    /\ Log[2][2] = [objs |-> {<<"a", 1>>}, grippers |-> EmptyMap]
    /\ Log[3][2] = [gripper |-> EmptyMap]

\* C8: in full-state mode with the clock set, an event overwrites its own
\* accumulated field(s), keeps the others and appends a snapshot whose payload
\* is the accumulated {objs, grippers, config} after the overwrite.
C8_FullStateAccumulates ==
    [][(logFullState /\ ~wasUnset' /\ ev'["kind"] \in EventKinds) =>
          /\ currentObjs' =
                CASE ev'["kind"] = "update_state" -> ev'["payload"]["objs"]
                  [] ev'["kind"] = "update_objs"  -> ev'["payload"]
                  [] OTHER -> currentObjs
          /\ currentGrippers' =
                CASE ev'["kind"] = "update_state"    -> ev'["payload"]["grippers"]
                  [] ev'["kind"] = "update_grippers" -> ev'["payload"]
                  [] OTHER -> currentGrippers
          /\ currentConfig' =
                CASE ev'["kind"] = "update_config" -> ev'["payload"]
                  [] OTHER -> currentConfig
          /\ AppendedOne
          /\ Last(data'["log"])[2] = [objs |-> currentObjs',
                                      grippers |-> currentGrippers',
                                      config |-> currentConfig']]_vars

C8_Witness ==
    /\ logFullState /\ ~wasUnset
    /\ ev["kind"] = "update_grippers" /\ ev["payload"] = EmptyMap
    /\ Len(Log) = 2
    /\ Log[1][2] = [objs |-> {<<"a", 1>>}, grippers |-> {<<"a", 1>>},
                    config |-> {<<"a", 1>>}]
    /\ Log[2][2] = [objs |-> {<<"a", 1>>}, grippers |-> EmptyMap,
                    config |-> {<<"a", 1>>}]

\* the last step was the call addData("log", ...)
AddDataLog(e) == e["kind"] = "addData" /\ e["payload"][1] = "log"

\* C9 as stated: addData("log", ...) emits a diagnostic and its return value
\* tells the caller that the key was rejected (it is not the undefined that an
\* accepted call returns).
C9_ReturnIndicatesRejection ==
    AddDataLog(ev) => (console # << >> /\ ret # "undefined")

\* C9 amended: addData("log", ...) leaves the data object unchanged and emits a
\* diagnostic; every addData call, rejected or accepted, returns undefined, and
\* an accepted call emits no diagnostic.
C9_ReservedKeyNoOp ==
    [][/\ AddDataLog(ev') =>
            /\ data' = data
            /\ Len(console') = 1
            /\ ret' = "undefined"
       /\ (ev'["kind"] = "addData" /\ ~AddDataLog(ev')) =>
            /\ console' = << >>
            /\ ret' = "undefined"]_vars

C9_Witness ==
    /\ AddDataLog(ev)
    /\ Len(console) = 1
    /\ ret = "undefined"
    /\ "user" \in DOMAIN data
    /\ Len(Log) > 0

\* C10: the exported object has exactly the key log and the keys passed to
\* addData (other than log) since construction or the last clear, each mapped
\* to the value last added under it; addData never alters the log, and an
\* upload serialises that object.
C10_ExportKeys ==
    [][/\ DOMAIN data' = {"log"} \cup DOMAIN added'
       /\ \A k \in DOMAIN added' : data'[k] = added'[k]
       /\ ev'["kind"] = "addData" => data'["log"] = data["log"]
       /\ ev'["kind"] = "sendData" =>
            /\ Len(fetches') = Len(fetches) + 1
            /\ Last(fetches')["body"] = JSONstringify(data')]_vars

C10_Witness ==
    /\ ev["kind"] = "sendData"
    /\ DOMAIN data = {"log", "user"}
    /\ data["user"] = "v2"
    /\ Len(Log) > 0
    /\ Last(fetches)["body"] = JSONstringify(data)

\* C11: clear yields the state of a freshly constructed logger (empty log, no
\* auxiliary data, clock unset, accumulated objects, grippers and config empty,
\* mode unchanged), and a second clear right after it changes nothing.
C11_ClearResets ==
    [][ev'["kind"] = "clear" =>
          /\ data' = [log |-> << >>]
          /\ startTime' = << >>
          /\ currentObjs' = {}
          /\ currentGrippers' = {}
          /\ currentConfig' = {}
          /\ logFullState' = logFullState
          /\ ev["kind"] = "clear" =>
                /\ data' = data
                /\ startTime' = startTime
                /\ currentObjs' = currentObjs
                /\ currentGrippers' = currentGrippers
                /\ currentConfig' = currentConfig]_vars

\* a request sent before the clear shows what the logger held
C11_Witness ==
    /\ ev["kind"] = "clear"
    /\ data = FreshData /\ Falsy(startTime)
    /\ Len(fetches) = 1
    /\ Len(Head(fetches)["body"]["json"]["log"]) = 1
    /\ "user" \in DOMAIN Head(fetches)["body"]["json"]
    /\ logFullState
    /\ Head(fetches)["body"]["json"]["log"][1][2]["config"] # EmptyMap

\* C12: with a wall clock that only moves forward, a snapshot recorded while the
\* clock is set has the offset (current time - clock), which is non-negative and
\* not smaller than the offset of the snapshot recorded before it, and greater
\* when time has passed since that snapshot was recorded.
C12_OffsetsMonotone ==
    [][(~Falsy(startTime') /\ Len(data'["log"]) > Len(data["log"])) =>
          LET new == Last(data'["log"])[1]
          IN  /\ new = now' - startTime'[1]
              /\ new >= 0
              /\ (Len(data["log"]) > 0 /\ Last(data["log"])[1] # -1) =>
                    /\ new >= Last(data["log"])[1]
                    /\ startTime' = startTime
                    /\ (now > startTime[1] + Last(data["log"])[1]) =>
                          new > Last(data["log"])[1]]_vars

\* session start, then two gripper events, each after one tick
C12_Witness ==
    /\ ~logFullState
    /\ ev["kind"] = "update_grippers"
    /\ Len(Log) = 3
    /\ DOMAIN Log[2][2] = {"gripper"} /\ DOMAIN Log[3][2] = {"gripper"}
    /\ Log[1][1] = 0 /\ Log[2][1] = 1 /\ Log[3][1] = 2

\* C13: every step other than clear keeps the log entries it found, in value
\* and position, and adds at most one entry, at the end.
C13_AppendOnly ==
    [][ev'["kind"] # "clear" =>
          /\ Len(data'["log"]) \in {Len(data["log"]), Len(data["log"]) + 1}
          /\ SubSeq(data'["log"], 1, Len(data["log"])) = data["log"]
          /\ ev'["kind"] \notin EventKinds => data'["log"] = data["log"]]_vars

C13_Witness ==
    /\ ~logFullState
    /\ ev["kind"] = "update_objs"
    /\ Len(Log) = 3
    /\ Log[1] = <<-1, [config |-> {<<"a", 1>>}]>>
    /\ Log[2] = <<0, [objs |-> EmptyMap, grippers |-> {<<"a", 1>>}]>>
    /\ Log[3] = <<0, [objs |-> {<<"a", 1>>}]>>

UploadKinds == {"sendData", "response", "reject"}

\* the last step was the failure of an upload: a non-success response or a
\* failure of the transport
UploadFailed(e) ==
    \/ e["kind"] = "reject"
    \/ e["kind"] = "response" /\ ~e["payload"]["ok"]

\* C14: starting an upload and its completion, whatever the outcome, leave log,
\* auxiliary data, clock and accumulated substate unchanged; an upload started
\* right after a failure transmits the log the logger still holds.
C14_UploadLeavesState ==
    [][/\ ev'["kind"] \in UploadKinds =>
            /\ data' = data
            /\ startTime' = startTime
            /\ currentObjs' = currentObjs
            /\ currentGrippers' = currentGrippers
            /\ currentConfig' = currentConfig
       /\ (UploadFailed(ev) /\ ev'["kind"] = "sendData") =>
            Last(fetches')["body"]["json"]["log"] = data["log"]]_vars

\* an upload started with one snapshot, an event processed while it was in
\* flight, then the failure: the logger holds both snapshots
C14_Witness ==
    /\ UploadFailed(ev)
    /\ Len(ev["payload"]["request"]["body"]["json"]["log"]) = 1
    /\ Len(Log) = 2
    /\ ~Falsy(startTime)
    /\ "user" \in DOMAIN data

\* C15: every failed upload, by a non-success response or by a failure of the
\* transport, emits a diagnostic message.
C15_FailuresReported == UploadFailed(ev) => Len(console) = 1

\* C16: the result sendData produces is true when the response is successful
\* and is not true when it is a failure.
C16_TrueAtSuccess ==
    ev["kind"] = "response" => (ret = "true" <=> ev["payload"]["ok"])

\* C17: in delta mode the log holds at most one snapshot with offset -1.
C17_OnePreStartConfig ==
    ~logFullState => Cardinality({i \in 1..Len(Log) : Log[i][1] = -1}) <= 1

\* C18: the body of a request is the serialised data object of the moment of
\* the sendData call; no later event, addData call or clear changes a request
\* in flight, and a completion only removes the request it settles.
C18_BodyFixedAtCall ==
    [][/\ ev'["kind"] = "sendData" =>
            /\ Len(fetches') = Len(fetches) + 1
            /\ SubSeq(fetches', 1, Len(fetches)) = fetches
            /\ Last(fetches')["body"]["json"] = data
       /\ ev'["kind"] \in {"response", "reject"} =>
            /\ fetches' = Tail(fetches)
            /\ ev'["payload"]["request"] = Head(fetches)
       /\ ev'["kind"] \notin UploadKinds => fetches' = fetches]_vars

\* the request in flight still carries the one snapshot and the auxiliary value
\* of the call, after a further event and a further addData
C18_Witness ==
    /\ ev["kind"] = "addData"
    /\ Len(fetches) = 1
    /\ Len(Log) = 2
    /\ Len(Head(fetches)["body"]["json"]["log"]) = 1
    /\ DOMAIN Head(fetches)["body"]["json"] = {"log"}
    /\ DOMAIN data = {"log", "user"}

\* C19: in full-state mode every snapshot payload has exactly the keys objs,
\* grippers and config, and while the clock is set the log is non-empty and its
\* last payload is the accumulated {objs, grippers, config} the logger holds.
C19_LastSnapshotIsCurrent ==
    logFullState =>
        /\ \A i \in 1..Len(Log) :
              DOMAIN Log[i][2] = {"objs", "grippers", "config"}
        /\ ~Falsy(startTime) =>
              /\ Len(Log) > 0
              /\ Last(Log)[2] = [objs |-> currentObjs,
                                 grippers |-> currentGrippers,
                                 config |-> currentConfig]

C19_Witness ==
    /\ logFullState /\ ~Falsy(startTime)
    /\ ev["kind"] = "update_config" /\ ~wasUnset
    /\ Len(Log) = 3
    /\ currentConfig = {<<"a", 1>>}
    /\ Log[2][2]["config"] = EmptyMap
    /\ Log[3][2]["config"] = {<<"a", 1>>}

\* positions of the snapshots with a non-negative offset
NonNegative(log) == {i \in 1..Len(log) : log[i][1] >= 0}

TypeOK ==
    /\ logFullState \in BOOLEAN
    /\ Len(data["log"]) <= MaxSteps
    /\ Len(startTime) <= 1
    /\ currentObjs \in Mappings
    /\ currentGrippers \in Mappings
    /\ currentConfig \in Mappings
    /\ now \in T0..(T0 + MaxSteps)
    /\ Len(fetches) <= MaxSteps
    /\ steps \in 0..MaxSteps
====
